---- MODULE Spec2Model ----
(***************************************************************************)
(* The chat hub of chicachica: the socket.io handlers of                   *)
(* backend/src/sockets/chatSocket.ts over the Store (ConversationService,  *)
(* MessageService, UserService).  A handler is a task: it runs from one    *)
(* awaited Store call to the next in one step, and the steps of different  *)
(* tasks interleave freely, as the handlers of a socket are not awaited by *)
(* socket.io.  Every effect a step has outside the task (an event emitted, *)
(* a Store write, a room or tag change) is appended to log.                *)
(***************************************************************************)
EXTENDS Integers, Sequences, FiniteSets, TLC

\* ---- bounds of the model
MaxReq == 3      \* client requests handled in one behaviour
MaxMsgs == 3     \* rows of the messages table
MaxHttp == 1     \* HTTP API calls (removeParticipant, deleteMessage)

Users == {"u1", "u2"}
Conns == {"k1", "k2", "k3"}
\* sockets whose handshake the middleware refuses, and all sockets
Strangers == {"k4", "k5"}
Sockets == Conns \cup Strangers
Convs == {"A", "B"}
TermSockets == {"s1", "s2"}
NoPty == 0

\* null last_read_message_id / no message
NoMsg == 0
\* socket.currentConversation undefined
NoConv == "none"

\* handshake without auth.userId
NoUser == ""

\* socket.handshake.auth.userId of each connection: k1 and k2 are two devices
\* of u1, k4 presents no user id, k5 one that is no row of users
Credential ==
    [k \in Sockets |-> CASE k = "k3" -> "u2"
                         [] k = "k4" -> NoUser
                         [] k = "k5" -> "u9"
                         [] OTHER -> "u1"]

VARIABLES
    participants,   \* conversation_participants rows: conv -> user ids by joined_at
    admins,         \* conv -> users whose row has is_admin
    lastRead,       \* conv -> user -> last_read_message_id (NoMsg: null)
    messages,       \* messages table: id -> [conv, author, ts, deleted]
    clock,          \* CURRENT_TIMESTAMP of the database
    userStatus,     \* users.status
    connState,      \* connection -> "new" | "refused" | "setup" | "setupGone" | "ready" | "closing" | "closed"
    rooms,          \* adapter: connection -> set of rooms it is in
    currentConversation,  \* socket.currentConversation
    discConv,       \* currentConversation captured by the disconnect handler
    tasks,          \* handlers started, in the order the requests arrived
    nhttp,          \* HTTP calls made
    log,            \* every effect, in order
    conversations,  \* conversations table: id -> created_by
    requests,       \* HTTP requests of the conversation controller in flight
    terminalSessions,  \* terminalSessions map: terminal socket -> pty (NoPty: no entry)
    ptys,           \* pty processes spawned: [socket, state]
    termConn,       \* terminal socket -> "new" | "connected" | "gone"
    messageList,    \* client of a connection: the messages it displays
    conversationList,  \* client of a connection: conv -> lastMessage of its list entry
    processed       \* events the clients' listeners have run for: <<connection, effect>>

vars == <<participants, admins, lastRead, messages, clock, userStatus, connState,
          rooms, currentConversation, discConv, tasks, nhttp, log,
          conversations, requests, terminalSessions, ptys, termConn,
          messageList, conversationList, processed>>

storeVars == <<participants, admins, lastRead, messages, clock, userStatus>>
hubVars == <<connState, rooms, currentConversation, discConv>>
apiVars == <<conversations, requests>>
terminalVars == <<terminalSessions, ptys, termConn>>
clientVars == <<messageList, conversationList, processed>>
\* what the handlers of the chat hub never touch
otherVars == <<apiVars, terminalVars, clientVars>>

\* ---- rooms
UserRoom(u) == <<"user:", u>>
ConvRoom(c) == <<"conversation:", c>>
\* the room named by the bare string passed to socket.leave
BareRoom(c) == <<"", c>>

\* a socket that is connected to the namespace (nsp.sockets holds it)
Connected(k) == connState[k] \in {"setup", "ready"}

\* io.to(room).emit: every connected socket in the room
IoTo(room) == {k \in Sockets : Connected(k) /\ room \in rooms[k]}
\* socket.to(room).emit: the same, except the socket itself
SocketTo(k, room) == IoTo(room) \ {k}
\* socket.emit: the socket, when still connected
SocketEmit(k) == IF Connected(k) THEN {k} ELSE {}

\* ---- the log
\* an event emitted to the sockets in `to`
Emit(type, t, from, conv, msg, user, unread, to) ==
    [type |-> type, task |-> t, from |-> from, room |-> <<>>, conv |-> conv,
     msg |-> msg, user |-> user, unread |-> unread, to |-> to, hist |-> <<>>, seq |-> 0, at |-> 0]
\* socket.join / socket.leave / socket.currentConversation = ...
RoomOp(type, t, k, room, conv) ==
    [type |-> type, task |-> t, from |-> k, room |-> room, conv |-> conv,
     msg |-> NoMsg, user |-> Credential[k], unread |-> 0, to |-> {}, hist |-> <<>>, seq |-> 0, at |-> 0]
\* a write of the Store
StoreOp(type, t, k, conv, msg) ==
    [type |-> type, task |-> t, from |-> k, room |-> <<>>, conv |-> conv,
     msg |-> msg, user |-> Credential[k], unread |-> 0, to |-> {}, hist |-> <<>>, seq |-> 0, at |-> 0]

\* the fields of the payload of each event
PayloadFields(type) ==
    CASE type = "authenticated" -> {"success", "userId"}
      [] type = "user_joined_conversation" -> {"userId", "userName", "conversationId"}
      [] type = "conversation_history" -> {"conversationId", "messages", "lastReadMessage"}
      [] type = "new_message" -> {"conversationId", "message"}
      [] type = "conversation_meta_updated" -> {"conversationId", "lastMessage", "unreadCount"}
      [] type = "user_typing" -> {"conversationId", "userId", "userName", "isTyping"}
      [] type = "message_read_updated" -> {"lastReadMessage"}
      [] type = "user_read_message" -> {"conversationId", "messageId", "userId"}
      [] type = "user_left_conversation" -> {"userId", "conversationId"}
      [] type = "error" -> {"message"}
      [] OTHER -> {}
\* those of them that hold a MessagePayload (id, content, timestamp, author)
MessageFields(type) ==
    IF type = "error" THEN {}
    ELSE PayloadFields(type) \cap {"message", "messages", "lastMessage", "lastReadMessage"}

\* the effects of one step of a handler join the log, numbered in the order
\* the handler produced them (seq counts within the handler)
Logged(effs) ==
    IF effs = <<>> THEN log
    ELSE LET n == Cardinality({e \in log : e.task = effs[1].task /\ e.from = effs[1].from})
         IN log \cup {[effs[i] EXCEPT !.seq = n + i] : i \in 1..Len(effs)}

\* the place of a new_message broadcast among all new_message broadcasts
NextBroadcast == 1 + Cardinality({e \in log : e.type = "new_message"})

RECURSIVE SeqToSet(_)
SeqToSet(s) == IF s = <<>> THEN {} ELSE {Head(s)} \cup SeqToSet(Tail(s))

RECURSIVE Without(_, _)
Without(s, x) ==
    IF s = <<>> THEN <<>>
    ELSE IF Head(s) = x THEN Without(Tail(s), x)
         ELSE <<Head(s)>> \o Without(Tail(s), x)

\* ---- ConversationService
\* SELECT EXISTS(... WHERE conversation_id = c AND user_id = u)
isUserInConversation(c, u) == \E i \in 1..Len(participants[c]) : participants[c][i] = u

\* SELECT cp.user_id ... ORDER BY cp.joined_at
getParticipantsForConversation(c) == participants[c]

\* (SELECT timestamp FROM messages WHERE id = cp.last_read_message_id)
PointerTimestamp(c, u) == messages[lastRead[c][u]].ts

\* mutant: the CASE without m.author_id != cp.user_id
CountsOwnAsUnread(c, u, m) ==
    \/ lastRead[c][u] = NoMsg
    \/ m.ts > PointerTimestamp(c, u)

\* the CASE of the COUNT, for one joined row (cp, m)
CountsAsUnread(c, u, m) ==
    /\ m.author # u
    /\ \/ lastRead[c][u] = NoMsg
       \/ m.ts > PointerTimestamp(c, u)

\* COUNT(CASE ...) over the rows of the LEFT JOIN for participant u, the
\* messages taken in id order from i on
RECURSIVE UnreadFrom(_, _, _)
UnreadFrom(c, u, i) ==
    IF i > Len(messages) THEN 0
    ELSE (IF /\ messages[i].conv = c
             /\ ~messages[i].deleted
             /\ CountsAsUnread(c, u, messages[i])
          THEN 1 ELSE 0) + UnreadFrom(c, u, i + 1)

\* the map returned: a row per participant among userIds, 0 for the others
getUnreadCountForConversation(c, userIds) ==
    [u \in userIds |-> IF isUserInConversation(c, u) THEN UnreadFrom(c, u, 1) ELSE 0]

\* ---- initial state: two conversations created by u1, u2 a participant of A
\* only, one message of u2 in A; nobody connected
Init ==
    /\ participants = [c \in Convs |-> IF c = "A" THEN <<"u1", "u2">> ELSE <<"u1">>]
    /\ admins = [c \in Convs |-> {"u1"}]
    /\ lastRead = [c \in Convs |-> [u \in Users |-> NoMsg]]
    /\ messages = <<[conv |-> "A", author |-> "u2", ts |-> 1, deleted |-> FALSE]>>
    /\ clock = 1
    /\ userStatus = [u \in Users |-> "offline"]
    /\ connState = [k \in Sockets |-> "new"]
    /\ rooms = [k \in Sockets |-> {}]
    /\ currentConversation = [k \in Sockets |-> NoConv]
    /\ discConv = [k \in Sockets |-> NoConv]
    /\ tasks = <<>>
    /\ nhttp = 0
    /\ conversations = [c \in Convs |-> "u1"]
    /\ requests = <<>>
    /\ terminalSessions = [s \in TermSockets |-> NoPty]
    /\ ptys = <<>>
    /\ termConn = [s \in TermSockets |-> "new"]
    /\ messageList = [k \in Sockets |-> <<>>]
    /\ conversationList = [k \in Sockets |-> [c \in Convs |-> NoMsg]]
    /\ processed = {}
    /\ log = {}

\* ---- handshake: io.use(authenticateSocket)
\* UserService.getUserById: the row, or null
getUserById(id) == IF id \in Users THEN id ELSE NoUser

\* mutant: the middleware lets every handshake through
authenticateAnybody(k) == TRUE

\* authenticateSocket: next() without an error only when the handshake names
\* a user id and the Store resolves it
authenticateSocket(k) ==
    /\ Credential[k] # NoUser
    /\ getUserById(Credential[k]) # NoUser

\* next(new Error(...)): the socket is never connected to the namespace and
\* the connection handler does not run
Refuse(k) ==
    /\ connState[k] = "new"
    /\ ~authenticateSocket(k)
    /\ connState' = [connState EXCEPT ![k] = "refused"]
    /\ UNCHANGED <<storeVars, rooms, currentConversation, discConv, tasks, nhttp, otherVars, log>>

\* mutant: the acknowledgment is emitted before the status write is awaited
ConnectAckFirst(k) ==
    /\ connState[k] = "new"
    /\ authenticateSocket(k)
    /\ connState' = [connState EXCEPT ![k] = "setup"]
    /\ rooms' = [rooms EXCEPT ![k] = {<<"user:", Credential[k]>>}]
    /\ log' = log \cup
          {[type |-> "room_join", task |-> 0, from |-> k, room |-> <<"user:", Credential[k]>>,
            conv |-> "none", msg |-> 0, user |-> Credential[k], unread |-> 0, to |-> {},
            hist |-> <<>>, seq |-> 1, at |-> 0],
           [type |-> "authenticated", task |-> 0, from |-> k, room |-> <<>>,
            conv |-> "none", msg |-> 0, user |-> Credential[k], unread |-> 0, to |-> {k},
            hist |-> <<>>, seq |-> 2, at |-> 0]}
    /\ UNCHANGED <<storeVars, currentConversation, discConv, tasks, nhttp, otherVars>>

\* ---- connection handler (io.on('connection')), up to the awaited status write
Connect(k) ==
    /\ connState[k] = "new"
    /\ authenticateSocket(k)
    /\ connState' = [connState EXCEPT ![k] = "setup"]
    /\ rooms' = [rooms EXCEPT ![k] = {UserRoom(Credential[k])}]
    /\ log' = Logged(<<RoomOp("room_join", 0, k, UserRoom(Credential[k]), NoConv)>>)
    /\ UNCHANGED <<storeVars, currentConversation, discConv, tasks, nhttp, otherVars>>

\* updateUserStatus(userId, 'online') completes: the ack is emitted and the
\* event handlers are registered
ConnectDone(k) ==
    /\ connState[k] \in {"setup", "setupGone"}
    /\ userStatus' = [userStatus EXCEPT ![Credential[k]] = "online"]
    /\ connState' = [connState EXCEPT ![k] = IF connState[k] = "setup" THEN "ready" ELSE "closed"]
    /\ log' = Logged(<<StoreOp("store_status_online", 0, k, NoConv, NoMsg),
                       Emit("authenticated", 0, k, NoConv, NoMsg, Credential[k], 0, SocketEmit(k))>>)
    /\ UNCHANGED <<participants, admins, lastRead, messages, clock, rooms,
                   currentConversation, discConv, tasks, nhttp, otherVars>>

\* the client goes away: socket.io leaves every room, then fires 'disconnect';
\* the handler captures currentConversation and awaits the status write
Disconnect(k) ==
    /\ connState[k] \in {"setup", "ready"}
    /\ connState' = [connState EXCEPT ![k] = IF connState[k] = "ready" THEN "closing" ELSE "setupGone"]
    /\ rooms' = [rooms EXCEPT ![k] = {}]
    /\ discConv' = [discConv EXCEPT ![k] = IF connState[k] = "ready" THEN currentConversation[k] ELSE NoConv]
    /\ log' = Logged(<<RoomOp("room_leave_all", 0, k, <<>>, NoConv)>>)
    /\ UNCHANGED <<storeVars, currentConversation, tasks, nhttp, otherVars>>

\* socket.to(`conversation:${currentConversation}`).emit('user_left_conversation')
DisconnectAudience(k, c) == SocketTo(k, ConvRoom(c))

\* the awaited updateUserStatus(userId, 'offline') of the disconnect handler
\* completes; user_left_conversation goes to the conversation captured
DisconnectDone(k) ==
    /\ connState[k] = "closing"
    /\ userStatus' = [userStatus EXCEPT ![Credential[k]] = "offline"]
    /\ connState' = [connState EXCEPT ![k] = "closed"]
    /\ log' = Logged(<<StoreOp("store_status_offline", 0, k, NoConv, NoMsg)>>
                  \o (IF discConv[k] # NoConv
                      THEN <<Emit("user_left_conversation", 0, k, discConv[k], NoMsg,
                                  Credential[k], 0, DisconnectAudience(k, discConv[k]))>>
                      ELSE <<>>))
    /\ UNCHANGED <<participants, admins, lastRead, messages, clock, rooms,
                   currentConversation, discConv, tasks, nhttp, otherVars>>

\* ---- an event of the client arrives while the connection handler awaits
\* the status write: the socket is connected (the client has seen `connect`)
\* but socket.on(...) has not run yet, so no listener receives the event.
\* The log keeps the event under its own name.
ClientEvents == {"join_conversation", "send_message", "typing", "message_read",
                 "leave_conversation"}
Unheard(k) == {e \in log : e.type \in ClientEvents /\ e.from = k}
EventBeforeListeners(k, ev, c) ==
    /\ connState[k] = "setup"
    /\ Unheard(k) = {}
    /\ log' = Logged(<<RoomOp(ev, 0, k, <<>>, c)>>)
    /\ UNCHANGED <<storeVars, hubVars, tasks, nhttp, otherVars>>

\* ---- tasks: one per event a registered handler receives
\* where a handler has ended: normally, by its catch block, at the early
\* return of leave_conversation, or with its promise rejected
Finished == {"done", "failed", "noop", "rejected"}

\* ghost `alone`: no other handler of the connection was in flight when this
\* one started; ghost `member`: see Validated
NewTask(k, op, c, a, pc) ==
    [conn |-> k, op |-> op, conv |-> c, arg |-> a, pc |-> pc, member |-> "pending",
     mid |-> NoMsg, parts |-> <<>>, hist |-> <<>>,
     alone |-> \A t \in DOMAIN tasks : tasks[t].conn = k => tasks[t].pc \in Finished]

\* the handlers are registered on a connected socket, and the request budget
\* is not used up
CanRequest(k) == connState[k] = "ready" /\ Len(tasks) < MaxReq

\* a handler whose first statement is await validateConversationMembership
Start(k, op, c, a) ==
    /\ CanRequest(k)
    /\ tasks' = Append(tasks, NewTask(k, op, c, a, "validate"))
    /\ UNCHANGED <<storeVars, hubVars, nhttp, otherVars, log>>

At(t, op, pc) == tasks[t].op = op /\ tasks[t].pc = pc
UserOf(t) == Credential[tasks[t].conn]

\* mutant: the membership check lets everybody through
validateNothing(c, u) == TRUE

\* validateConversationMembership: throws unless the row exists
validateConversationMembership(c, u) == isUserInConversation(c, u)

\* ghost: whether the participant row exists at the step that validates
RowExists(c, u) == u \in SeqToSet(participants[c])
Validated(t, pc) ==
    [tasks EXCEPT ![t].pc = pc,
                  ![t].member = IF RowExists(tasks[t].conv, UserOf(t)) THEN "yes" ELSE "no"]

\* ---- join_conversation
JoinConversation(k, c) == Start(k, "join", c, NoMsg)

\* socket.to(`conversation:${conversationId}`).emit('user_joined_conversation')
JoinedAudience(k, c) == SocketTo(k, ConvRoom(c))

\* the room socket.leave(socket.currentConversation) names
RoomLeftOnSwitch(cur) == BareRoom(cur)

JoinValidate(t) ==
    /\ At(t, "join", "validate")
    /\ LET k == tasks[t].conn
           c == tasks[t].conv
           cur == currentConversation[k]
       IN IF validateConversationMembership(c, UserOf(t))
          THEN /\ rooms' = [rooms EXCEPT ![k] =
                              (IF cur # NoConv THEN @ \ {RoomLeftOnSwitch(cur)} ELSE @)
                                 \cup {ConvRoom(c)}]
               /\ currentConversation' = [currentConversation EXCEPT ![k] = c]
               /\ tasks' = Validated(t, "history")
               /\ log' = Logged(
                       (IF cur # NoConv
                        THEN <<RoomOp("room_leave", t, k, RoomLeftOnSwitch(cur), cur)>>
                        ELSE <<>>)
                    \o <<RoomOp("tag_set", t, k, <<>>, c),
                         RoomOp("room_join", t, k, ConvRoom(c), c),
                         Emit("user_joined_conversation", t, k, c, NoMsg, UserOf(t), 0,
                              JoinedAudience(k, c))>>)
          ELSE /\ tasks' = Validated(t, "failed")
               /\ log' = Logged(<<Emit("error", t, k, c, NoMsg, UserOf(t), 0, SocketEmit(k))>>)
               /\ UNCHANGED <<rooms, currentConversation>>
    /\ UNCHANGED <<storeVars, connState, discConv, nhttp, otherVars>>

\* MessageService.getMessagesForConversation(c): the ids of the latest `limit`
\* non-deleted messages, oldest first
PageLimit == 50
\* mutant: the query without m.is_deleted = false
RECURSIVE AllIdsFrom(_, _)
AllIdsFrom(c, i) ==
    IF i > Len(messages) THEN <<>>
    ELSE (IF messages[i].conv = c THEN <<i>> ELSE <<>>) \o AllIdsFrom(c, i + 1)
RECURSIVE LiveIdsFrom(_, _)
LiveIdsFrom(c, i) ==
    IF i > Len(messages) THEN <<>>
    ELSE (IF messages[i].conv = c /\ ~messages[i].deleted THEN <<i>> ELSE <<>>)
            \o LiveIdsFrom(c, i + 1)
getMessagesForConversation(c) ==
    LET all == LiveIdsFrom(c, 1)
    IN IF Len(all) <= PageLimit THEN all
       ELSE SubSeq(all, Len(all) - PageLimit + 1, Len(all))

\* MessageService.getMessageCount(c): SELECT COUNT(*) ... AND is_deleted = false
RECURSIVE CountFrom(_, _)
CountFrom(c, i) ==
    IF i > Len(messages) THEN 0
    ELSE (IF messages[i].conv = c /\ messages[i].deleted = FALSE THEN 1 ELSE 0)
            + CountFrom(c, i + 1)
getMessageCount(c) == CountFrom(c, 1)

\* MessageService.getLastMessagesForConversations, for one conversation: the
\* row ranked first by timestamp DESC among the non-deleted ones, or null
getLastMessage(c) ==
    LET ranked == {i \in 1..Len(messages) : messages[i].conv = c /\ messages[i].deleted = FALSE}
    IN IF ranked = {} THEN NoMsg
       ELSE CHOOSE i \in ranked : \A j \in ranked : messages[j].ts <= messages[i].ts

JoinHistory(t) ==
    /\ At(t, "join", "history")
    /\ tasks' = [tasks EXCEPT ![t].pc = "lastRead",
                              ![t].hist = getMessagesForConversation(tasks[t].conv)]
    /\ UNCHANGED <<storeVars, hubVars, nhttp, otherVars, log>>

\* ConversationService.getLastReadMessage(userId, conversationId): the message
\* the participant row points to, or null
getLastReadMessage(u, c) == IF RowExists(c, u) THEN lastRead[c][u] ELSE NoMsg

\* mutant: the reply goes to the user's personal group
HistoryToUser(k) == IoTo(UserRoom(Credential[k]))

\* socket.emit('conversation_history')
HistoryAudience(k) == SocketEmit(k)

JoinLastRead(t) ==
    /\ At(t, "join", "lastRead")
    /\ LET k == tasks[t].conn
           c == tasks[t].conv
       IN /\ tasks' = [tasks EXCEPT ![t].pc = "done"]
          /\ log' = Logged(<<[Emit("conversation_history", t, k, c, getLastReadMessage(UserOf(t), c),
                      UserOf(t), 0, HistoryAudience(k)) EXCEPT !.hist = tasks[t].hist]>>)
    /\ UNCHANGED <<storeVars, hubVars, nhttp, otherVars>>

\* ---- send_message
SendMessage(k, c) == Start(k, "send", c, NoMsg)

SendValidate(t) ==
    /\ At(t, "send", "validate")
    /\ IF validateConversationMembership(tasks[t].conv, UserOf(t))
       THEN /\ tasks' = Validated(t, "create")
            /\ UNCHANGED log
       ELSE /\ tasks' = Validated(t, "failed")
            /\ log' = Logged(<<Emit("error", t, tasks[t].conn, tasks[t].conv, NoMsg,
                                       UserOf(t), 0, SocketEmit(tasks[t].conn))>>)
    /\ UNCHANGED <<storeVars, hubVars, nhttp, otherVars>>

\* MessageService.createMessage: the INSERT runs in the database, which
\* assigns id and timestamp; the reply is still on its way to the hub
SendCreateExec(t) ==
    /\ At(t, "send", "create")
    /\ Len(messages) < MaxMsgs
    /\ clock' = clock + 1
    /\ messages' = Append(messages, [conv |-> tasks[t].conv, author |-> UserOf(t),
                                     ts |-> clock + 1, deleted |-> FALSE])
    /\ tasks' = [tasks EXCEPT ![t].pc = "created", ![t].mid = Len(messages) + 1]
    /\ log' = Logged(<<StoreOp("store_createMessage", t, tasks[t].conn, tasks[t].conv,
                                  Len(messages) + 1)>>)
    /\ UNCHANGED <<participants, admins, lastRead, userStatus, hubVars, nhttp, otherVars>>

\* mutant: socket.to in place of io.to
NewMessageToOthers(k, c) == SocketTo(k, ConvRoom(c))

\* io.to(`conversation:${conversationId}`).emit('new_message')
NewMessageAudience(k, c) == IoTo(ConvRoom(c))

\* the reply of createMessage arrives: the message is broadcast
SendCreated(t) ==
    /\ At(t, "send", "created")
    /\ tasks' = [tasks EXCEPT ![t].pc = "participants"]
    /\ log' = Logged(<<[Emit("new_message", t, tasks[t].conn, tasks[t].conv, tasks[t].mid,
                               UserOf(t), 0, NewMessageAudience(tasks[t].conn, tasks[t].conv))
                           EXCEPT !.at = NextBroadcast]>>)
    /\ UNCHANGED <<storeVars, hubVars, nhttp, otherVars>>

SendParticipants(t) ==
    /\ At(t, "send", "participants")
    /\ tasks' = [tasks EXCEPT ![t].pc = "unread",
                              ![t].parts = getParticipantsForConversation(tasks[t].conv)]
    /\ UNCHANGED <<storeVars, hubVars, nhttp, otherVars, log>>

\* mutant: the sender gets the computed count like everybody else
PushedComputedUnread(participantId, userId, unreadCounts) == unreadCounts[participantId]

\* participantId === userId ? 0 : unreadCounts[participantId] || 0
PushedUnread(participantId, userId, unreadCounts) ==
    IF participantId = userId THEN 0 ELSE unreadCounts[participantId]

\* mutant: the push reaches only the sockets that are in some conversation
MetaToViewers(participantId) ==
    {k \in IoTo(UserRoom(participantId)) : currentConversation[k] # NoConv}

\* io.to(`user:${participantId}`).emit('conversation_meta_updated')
MetaAudience(participantId) == IoTo(UserRoom(participantId))

SendUnread(t) ==
    /\ At(t, "send", "unread")
    /\ LET c == tasks[t].conv
           ids == tasks[t].parts
           unreadCounts == getUnreadCountForConversation(c, SeqToSet(ids))
       IN log' = Logged(
            [i \in 1..Len(ids) |->
                Emit("conversation_meta_updated", t, tasks[t].conn, c, tasks[t].mid, ids[i],
                     PushedUnread(ids[i], UserOf(t), unreadCounts), MetaAudience(ids[i]))])
    /\ tasks' = [tasks EXCEPT ![t].pc = "done"]
    /\ UNCHANGED <<storeVars, hubVars, nhttp, otherVars>>

\* ---- what the catch block of each handler emits: `error` in
\* join_conversation, send_message and message_read; typing only logs;
\* leave_conversation has no catch block
\* mutant: every handler reports
CatchAlwaysEmits(op) == "error"

CatchEmits(op) == IF op \in {"join", "send", "read"} THEN "error" ELSE "nothing"

\* ---- typing
Typing(k, c) == Start(k, "typing", c, NoMsg)

\* mutant: io.to in place of socket.to
TypingToAll(k, c) == IoTo(ConvRoom(c))

\* socket.to(`conversation:${conversationId}`).emit('user_typing')
TypingAudience(k, c) == SocketTo(k, ConvRoom(c))

TypingValidate(t) ==
    /\ At(t, "typing", "validate")
    /\ IF validateConversationMembership(tasks[t].conv, UserOf(t))
       THEN /\ tasks' = Validated(t, "done")
            /\ log' = Logged(<<Emit("user_typing", t, tasks[t].conn, tasks[t].conv, NoMsg,
                                       UserOf(t), 0, TypingAudience(tasks[t].conn, tasks[t].conv))>>)
       ELSE /\ tasks' = Validated(t, "failed")
            /\ log' = IF CatchEmits("typing") = "error"
                      THEN Logged(<<Emit("error", t, tasks[t].conn, tasks[t].conv, NoMsg,
                                         UserOf(t), 0, SocketEmit(tasks[t].conn))>>)
                      ELSE log
    /\ UNCHANGED <<storeVars, hubVars, nhttp, otherVars>>

\* ---- message_read
\* the client names a message it has seen: one that exists
MessageRead(k, c, m) == m \in 1..Len(messages) /\ Start(k, "read", c, m)

ReadValidate(t) ==
    /\ At(t, "read", "validate")
    /\ IF validateConversationMembership(tasks[t].conv, UserOf(t))
       THEN /\ tasks' = Validated(t, "update")
            /\ UNCHANGED log
       ELSE /\ tasks' = Validated(t, "failed")
            /\ log' = Logged(<<Emit("error", t, tasks[t].conn, tasks[t].conv, NoMsg,
                                       UserOf(t), 0, SocketEmit(tasks[t].conn))>>)
    /\ UNCHANGED <<storeVars, hubVars, nhttp, otherVars>>

\* UPDATE conversation_participants SET last_read_message_id = m WHERE ...:
\* the pointer after the statement
\* mutant: marking the message the pointer is on clears the pointer
toggleLastReadMessage(c, u, m) == [lastRead EXCEPT ![c][u] = IF @ = m THEN NoMsg ELSE m]

updateLastReadMessage(c, u, m) == [lastRead EXCEPT ![c][u] = m]

\* the message row the handler takes from the value updateLastReadMessage
\* resolved to, when it is truthy: the message of the id asked for
ReadReplyMessage(m) == m

\* socket.to(`conversation:${conversationId}`).emit('user_read_message')
ReadAudience(k, c) == SocketTo(k, ConvRoom(c))

\* mutant: the metadata of a read goes to every connected socket
ReadMetaToEveryone(u) == {k \in Sockets : Connected(k)}

\* io.to(`user:${userId}`).emit('conversation_meta_updated')
ReadMetaAudience(u) == IoTo(UserRoom(u))

ReadUpdate(t) ==
    /\ At(t, "read", "update")
    /\ LET k == tasks[t].conn
           c == tasks[t].conv
           u == UserOf(t)
           m == tasks[t].arg
       IN IF ~RowExists(c, u)
          THEN \* no row updated: the result is falsy, nothing is emitted
               /\ tasks' = [tasks EXCEPT ![t].pc = "done"]
               /\ UNCHANGED <<lastRead, log>>
          ELSE /\ lastRead' = updateLastReadMessage(c, u, m)
               /\ tasks' = [tasks EXCEPT ![t].pc = "done", ![t].mid = m]
               /\ log' = Logged(
                    <<StoreOp("store_updateLastRead", t, k, c, m),
                      Emit("message_read_updated", t, k, c, ReadReplyMessage(m), u, 0, SocketEmit(k)),
                      Emit("user_read_message", t, k, c, m, u, 0, ReadAudience(k, c)),
                      Emit("conversation_meta_updated", t, k, c, ReadReplyMessage(m), u, 0,
                           ReadMetaAudience(u))>>)
    /\ UNCHANGED <<participants, admins, messages, clock, userStatus, hubVars, nhttp, otherVars>>

\* ---- leave_conversation
\* the handler returns at once unless the conversation is the current one
\* mutant: the handler does not compare the conversation with the tag
LeaveAlwaysValidates(k, c) == "validate"

\* if (socket.currentConversation === conversationId)
LeaveStartsAt(k, c) == IF currentConversation[k] = c THEN "validate" ELSE "noop"

LeaveConversation(k, c) ==
    /\ CanRequest(k)
    /\ tasks' = Append(tasks, NewTask(k, "leave", c, NoMsg, LeaveStartsAt(k, c)))
    /\ UNCHANGED <<storeVars, hubVars, nhttp, otherVars, log>>

\* socket.to(`conversation:${conversationId}`).emit('user_left_conversation')
LeftAudience(k, c) == SocketTo(k, ConvRoom(c))

\* no try/catch here: a failed validation rejects the handler's promise
LeaveValidate(t) ==
    /\ At(t, "leave", "validate")
    /\ LET k == tasks[t].conn
           c == tasks[t].conv
       IN IF validateConversationMembership(c, UserOf(t))
          THEN /\ rooms' = [rooms EXCEPT ![k] = @ \ {ConvRoom(c)}]
               /\ currentConversation' = [currentConversation EXCEPT ![k] = NoConv]
               /\ tasks' = Validated(t, "done")
               /\ log' = Logged(
                    <<RoomOp("room_leave", t, k, ConvRoom(c), c),
                      RoomOp("tag_set", t, k, <<>>, NoConv),
                      Emit("user_left_conversation", t, k, c, NoMsg, UserOf(t), 0,
                           LeftAudience(k, c))>>)
          ELSE /\ tasks' = Validated(t, "rejected")
               /\ UNCHANGED <<rooms, currentConversation, log>>
    /\ UNCHANGED <<storeVars, connState, discConv, nhttp, otherVars>>

\* ---- a Store call throws (processDatabaseError)
\* mutant: the error goes to every socket of the user
ErrorToUser(k) == IoTo(UserRoom(Credential[k]))

\* socket.emit('error', ...) of the catch blocks
ErrorAudience(k) == SocketEmit(k)

\* the Store call handler t awaits throws: join_conversation, send_message
\* and message_read catch it and emit `error`, typing catches it and logs,
\* leave_conversation does not catch it.  (At "created" the INSERT has been
\* done and only its reply is awaited.)
StoreFails(t) ==
    /\ tasks[t].pc \notin Finished
    /\ tasks[t].pc # "created"
    /\ LET k == tasks[t].conn
           op == tasks[t].op
       IN /\ tasks' = [tasks EXCEPT ![t].pc = IF op = "leave" THEN "rejected" ELSE "failed"]
          /\ log' = IF CatchEmits(op) = "error"
                    THEN Logged(<<Emit("error", t, k, tasks[t].conv, NoMsg, UserOf(t), 0,
                                       ErrorAudience(k))>>)
                    ELSE log
    /\ UNCHANGED <<storeVars, hubVars, nhttp, otherVars>>

\* ---- HTTP API, as far as it changes what the hub reads
\* removeParticipant: oneself, or anybody when an admin; the row goes, and its
\* read pointer with it
removeParticipant(c, actor, target) ==
    /\ nhttp < MaxHttp
    /\ target = actor \/ (RowExists(c, actor) /\ actor \in admins[c])
    /\ RowExists(c, target)
    /\ participants' = [participants EXCEPT ![c] = Without(@, target)]
    /\ admins' = [admins EXCEPT ![c] = @ \ {target}]
    /\ lastRead' = [lastRead EXCEPT ![c][target] = NoMsg]
    /\ nhttp' = nhttp + 1
    /\ UNCHANGED otherVars
    /\ UNCHANGED <<messages, clock, userStatus, hubVars, tasks, log>>

\* deleteMessage: the author soft-deletes a message
deleteMessage(m, actor) ==
    /\ nhttp < MaxHttp
    /\ m \in 1..Len(messages)
    /\ messages[m].author = actor
    /\ messages' = [messages EXCEPT ![m].deleted = TRUE]
    /\ nhttp' = nhttp + 1
    /\ UNCHANGED otherVars
    /\ UNCHANGED <<participants, admins, lastRead, clock, userStatus, hubVars, tasks, log>>

\* ---- conversation controller: createConversation, addParticipant
MAX_PARTICIPANTS == 10
MaxApiReq == 3
\* users table of the deployments with a full conversation; "u9" is the id of
\* no user
Accounts == Users \cup {"p3", "p4", "p5", "p6", "p7", "p8", "p9", "p10", "p11"}
NewRequest(op, c, actor, target, pc) ==
    [op |-> op, conv |-> c, actor |-> actor, target |-> target, pc |-> pc]

\* Array.from(new Set([userId, ...participantIds]))
RECURSIVE Listed(_)
Listed(ids) ==
    IF ids = {} THEN <<>>
    ELSE LET u == CHOOSE x \in ids : TRUE IN <<u>> \o Listed(ids \ {u})
allParticipants(userId, participantIds) == <<userId>> \o Listed(participantIds \ {userId})

\* createConversation, up to the second INSERT: the limit is checked, and
\* the conversation row is inserted with a fresh id
createConversation(c, userId, participantIds) ==
    /\ Len(requests) < MaxApiReq
    /\ c \notin DOMAIN conversations
    /\ IF Len(allParticipants(userId, participantIds)) > MAX_PARTICIPANTS
       THEN /\ requests' = Append(requests,
                    NewRequest("createConversation", c, userId, participantIds, "400"))
            /\ UNCHANGED conversations
       ELSE /\ requests' = Append(requests,
                    NewRequest("createConversation", c, userId, participantIds, "insert"))
            /\ conversations' = [x \in DOMAIN conversations \cup {c} |->
                                    IF x = c THEN userId ELSE conversations[x]]
    /\ UNCHANGED <<storeVars, hubVars, tasks, nhttp, log, terminalVars, clientVars>>

\* ConversationService.createConversation, the bulk INSERT of the participant
\* rows, is_admin for the creator only; it fails as a whole when an id is
\* that of no user (foreign key), and the controller answers 500
createParticipants(r) ==
    /\ r \in DOMAIN requests
    /\ requests[r].op = "createConversation" /\ requests[r].pc = "insert"
    /\ LET c == requests[r].conv
           all == allParticipants(requests[r].actor, requests[r].target)
       IN IF SeqToSet(all) \subseteq Accounts
          THEN /\ participants' = [participants EXCEPT ![c] = all]
               /\ admins' = [admins EXCEPT ![c] = {requests[r].actor}]
               /\ requests' = [requests EXCEPT ![r].pc = "201"]
          ELSE /\ requests' = [requests EXCEPT ![r].pc = "500"]
               /\ UNCHANGED <<participants, admins>>
    /\ UNCHANGED <<lastRead, messages, clock, userStatus, hubVars, tasks, nhttp, log,
                   conversations, terminalVars, clientVars>>

\* addParticipant, up to the INSERT: getConversationById is read, then the
\* checks of existence, of the caller's is_admin and of the limit
addParticipant(c, userId, newUserId) ==
    /\ Len(requests) < MaxApiReq
    /\ requests' = Append(requests, NewRequest("addParticipant", c, userId, newUserId,
            IF c \notin DOMAIN conversations THEN "404"
            ELSE IF ~(RowExists(c, userId) /\ userId \in admins[c]) THEN "403"
            ELSE IF Len(participants[c]) >= MAX_PARTICIPANTS THEN "400"
            ELSE "insert"))
    /\ UNCHANGED <<storeVars, hubVars, tasks, nhttp, log, conversations,
                   terminalVars, clientVars>>

\* ConversationService.addParticipantToConversation(conversationId, newUserId,
\* false): INSERT ... ON CONFLICT DO NOTHING
addParticipantToConversation(r) ==
    /\ r \in DOMAIN requests
    /\ requests[r].op = "addParticipant" /\ requests[r].pc = "insert"
    /\ LET c == requests[r].conv
           u == requests[r].target
       IN IF u \notin Accounts \/ c \notin DOMAIN conversations
          THEN /\ requests' = [requests EXCEPT ![r].pc = "500"]
               /\ UNCHANGED participants
          ELSE /\ requests' = [requests EXCEPT ![r].pc = "200"]
               /\ participants' = [participants EXCEPT ![c] =
                                      IF RowExists(c, u) THEN @ ELSE Append(@, u)]
    /\ UNCHANGED <<admins, lastRead, messages, clock, userStatus, hubVars, tasks, nhttp,
                   log, conversations, terminalVars, clientVars>>

\* ---- the clients: the listeners of a connection's client
\* the events whose listeners keep client state
ClientListens == {"conversation_history", "new_message", "conversation_meta_updated"}
\* events emitted to connection k whose listener has not run yet
Pending(k) == {e \in log : e.type \in ClientListens /\ k \in e.to /\ <<k, e>> \notin processed}
NothingPending == \A k \in Sockets : Pending(k) = {}

\* activeConversationIdRef / currentConversationRef: the conversation of the
\* client's last join_conversation, null after a leave_conversation
RECURSIVE ActiveFrom(_, _)
ActiveFrom(k, t) ==
    IF t = 0 THEN NoConv
    ELSE IF tasks[t].conn = k /\ tasks[t].op = "join" THEN tasks[t].conv
    ELSE IF tasks[t].conn = k /\ tasks[t].op = "leave" THEN NoConv
    ELSE ActiveFrom(k, t - 1)
activeConversationId(k) == ActiveFrom(k, Len(tasks))

\* the listener of the client of k runs for an event: conversation_history
\* replaces the message list, new_message appends to it (both for the active
\* conversation), conversation_meta_updated replaces lastMessage of the
\* conversation's entry in the list
ClientReceive(k) ==
    /\ \E e \in Pending(k) :
          /\ processed' = processed \cup {<<k, e>>}
          /\ messageList' =
                IF e.type = "conversation_history" /\ e.conv = activeConversationId(k)
                THEN [messageList EXCEPT ![k] = e.hist]
                ELSE IF e.type = "new_message" /\ e.conv = activeConversationId(k)
                THEN [messageList EXCEPT ![k] = Append(@, e.msg)]
                ELSE messageList
          /\ conversationList' =
                IF e.type = "conversation_meta_updated"
                THEN [conversationList EXCEPT ![k][e.conv] = e.msg]
                ELSE conversationList
    /\ UNCHANGED <<storeVars, hubVars, tasks, nhttp, log, apiVars, terminalVars>>

\* ---- terminal namespace (terminalSocket.ts)
MaxPtys == 3

\* terminalNamespace.on('connection')
TerminalConnect(s) ==
    /\ termConn[s] = "new"
    /\ termConn' = [termConn EXCEPT ![s] = "connected"]
    /\ UNCHANGED <<storeVars, hubVars, tasks, nhttp, log, apiVars, clientVars,
                   terminalSessions, ptys>>

\* existingPty?.kill(): the process is signalled; it exits, and its exit
\* callback runs, later
Killed(ps, p) == IF p # NoPty /\ ps[p].state = "running"
                 THEN [ps EXCEPT ![p].state = "killed"] ELSE ps

\* socket.on('terminal-init'): the session registered for the socket is
\* killed and unregistered, a pty is spawned and registered; when spawn
\* throws, the catch block reports terminal-error
TerminalInit(s) ==
    /\ termConn[s] = "connected"
    /\ Len(ptys) < MaxPtys
    /\ \E spawned \in BOOLEAN :
          IF spawned
          THEN /\ ptys' = Append(Killed(ptys, terminalSessions[s]),
                                 [socket |-> s, state |-> "running"])
               /\ terminalSessions' = [terminalSessions EXCEPT ![s] = Len(ptys) + 1]
          ELSE /\ ptys' = Killed(ptys, terminalSessions[s])
               /\ terminalSessions' = [terminalSessions EXCEPT ![s] = NoPty]
    /\ UNCHANGED <<storeVars, hubVars, tasks, nhttp, log, apiVars, clientVars, termConn>>

\* ptyProcess.onExit: the process has exited, by itself or killed; the
\* callback deletes the entry of its socket
PtyExit(p) ==
    /\ p \in DOMAIN ptys
    /\ ptys[p].state \in {"running", "killed"}
    /\ ptys' = [ptys EXCEPT ![p].state = "exited"]
    /\ terminalSessions' = [terminalSessions EXCEPT ![ptys[p].socket] = NoPty]
    /\ UNCHANGED <<storeVars, hubVars, tasks, nhttp, log, apiVars, clientVars, termConn>>

\* socket.on('disconnect'): the registered pty, if any, is killed and
\* unregistered
TerminalDisconnect(s) ==
    /\ termConn[s] = "connected"
    /\ termConn' = [termConn EXCEPT ![s] = "gone"]
    /\ ptys' = Killed(ptys, terminalSessions[s])
    /\ terminalSessions' = [terminalSessions EXCEPT ![s] = NoPty]
    /\ UNCHANGED <<storeVars, hubVars, tasks, nhttp, log, apiVars, clientVars>>

\* ---- steps of the handlers in flight
JoinSteps == \E t \in DOMAIN tasks : JoinValidate(t) \/ JoinHistory(t) \/ JoinLastRead(t)
SendSteps ==
    \E t \in DOMAIN tasks :
        \/ SendValidate(t)
        \/ SendCreateExec(t)
        \/ SendCreated(t)
        \/ SendParticipants(t)
        \/ SendUnread(t)
ReadSteps == \E t \in DOMAIN tasks : ReadValidate(t) \/ ReadUpdate(t)

\* ---- connections come and go: nothing else
NextPresence ==
    \E k \in Conns : Connect(k) \/ ConnectDone(k) \/ Disconnect(k) \/ DisconnectDone(k)

SpecPresence == Init /\ [][NextPresence]_vars

\* ---- sending: joins of every connection, sends of k1 into A, and the second
\* device of u1 leaving
NextSend ==
    \/ \E k \in Conns : Connect(k) \/ ConnectDone(k)
    \/ Disconnect("k2") \/ DisconnectDone("k2")
    \/ \E c \in Convs : JoinConversation("k1", c) \/ JoinConversation("k3", c)
    \/ JoinConversation("k2", "A")
    \/ SendMessage("k1", "A")
    \/ JoinSteps
    \/ SendSteps

SpecSend == Init /\ [][NextSend]_vars

GateConns == {"k1", "k3"}
MaxGateReq == 2
GateRequest ==
    /\ Len(tasks) < MaxGateReq
    /\ \E k \in GateConns, c \in Convs :
          \/ JoinConversation(k, c)
          \/ SendMessage(k, c)
          \/ Typing(k, c)
          \/ \E m \in 1..MaxMsgs : MessageRead(k, c, m)
          \/ LeaveConversation(k, c)
NextGate ==
    \/ \E k \in GateConns : Connect(k) \/ ConnectDone(k)
    \/ GateRequest
    \/ JoinSteps
    \/ SendSteps
    \/ \E t \in DOMAIN tasks : TypingValidate(t)
    \/ ReadSteps
    \/ \E t \in DOMAIN tasks : LeaveValidate(t)
    \/ \E c \in Convs, a \in Users, u \in Users : removeParticipant(c, a, u)
SpecGate == Init /\ [][NextGate]_vars

NextUnread ==
    \/ \E k \in GateConns : Connect(k) \/ ConnectDone(k)
    \/ \E k \in GateConns : SendMessage(k, "A")
    \/ \E k \in GateConns, m \in 1..MaxMsgs : MessageRead(k, "A", m)
    \/ SendSteps
    \/ ReadSteps
    \/ \E a \in Users, u \in Users : removeParticipant("A", a, u)
    \/ \E m \in 1..MaxMsgs, a \in Users : deleteMessage(m, a)
SpecUnread == Init /\ [][NextUnread]_vars

NextRooms ==
    \/ \E k \in GateConns : Connect(k) \/ ConnectDone(k)
    \/ Disconnect("k1") \/ DisconnectDone("k1")
    \/ \E k \in GateConns, c \in Convs : JoinConversation(k, c)
    \/ \E k \in GateConns, c \in Convs : Typing(k, c)
    \/ \E k \in GateConns, c \in Convs, m \in 1..MaxMsgs : MessageRead(k, c, m)
    \/ \E k \in GateConns, c \in Convs : LeaveConversation(k, c)
    \/ JoinSteps
    \/ \E t \in DOMAIN tasks : TypingValidate(t)
    \/ ReadSteps
    \/ \E t \in DOMAIN tasks : LeaveValidate(t)
SpecRooms == Init /\ [][NextRooms]_vars

\* ---- Store calls failing: two devices of u1, the requests of the first
FailConns == {"k1", "k2"}
NextFail ==
    \/ \E k \in FailConns : Connect(k) \/ ConnectDone(k)
    \/ \E c \in Convs : JoinConversation("k1", c)
    \/ JoinConversation("k2", "A")
    \/ SendMessage("k1", "A")
    \/ \E m \in 1..MaxMsgs : MessageRead("k1", "A", m)
    \/ JoinSteps
    \/ SendSteps
    \/ ReadSteps
    \/ \E t \in DOMAIN tasks : StoreFails(t)
SpecFail == Init /\ [][NextFail]_vars

\* ---- typing: members and non-members, participants removed, Store calls
\* failing
NextTyping ==
    \/ \E k \in GateConns : Connect(k) \/ ConnectDone(k)
    \/ \E k \in GateConns : JoinConversation(k, "A")
    \/ \E k \in GateConns, c \in Convs : Typing(k, c)
    \/ JoinSteps
    \/ \E t \in DOMAIN tasks : TypingValidate(t)
    \/ \E t \in DOMAIN tasks : StoreFails(t)
    \/ \E a \in Users, u \in Users : removeParticipant("A", a, u)
SpecTyping == Init /\ [][NextTyping]_vars

\* ---- deletion: joins and sends on A with messages being soft-deleted
NextDelete ==
    \/ \E k \in GateConns : Connect(k) \/ ConnectDone(k)
    \/ \E k \in GateConns : JoinConversation(k, "A")
    \/ \E k \in GateConns : SendMessage(k, "A")
    \/ JoinSteps
    \/ SendSteps
    \/ \E m \in 1..MaxMsgs, a \in Users : deleteMessage(m, a)
SpecDelete == Init /\ [][NextDelete]_vars

\* ---- the hub with the clients of its connections: each connection joins A
\* once and sends into A; an event reaches its client, and the client's
\* listener runs, before the hub takes its next step
NextClient ==
    \/ NothingPending /\ \E k \in GateConns : Connect(k) \/ ConnectDone(k)
    \/ NothingPending
          /\ \E k \in GateConns :
                (\A t \in DOMAIN tasks : tasks[t].conn = k => tasks[t].op # "join")
                   /\ JoinConversation(k, "A")
    \/ NothingPending /\ \E k \in GateConns : SendMessage(k, "A")
    \/ NothingPending /\ JoinSteps
    \/ NothingPending /\ SendSteps
    \/ \E k \in GateConns : ClientReceive(k)
SpecClient == Init /\ [][NextClient]_vars

\* ---- the conversation controller: a conversation A of nine participants
\* created by u1, no other conversation yet
InitParticipants ==
    /\ participants = [c \in Convs |->
                         IF c = "A"
                         THEN <<"u1", "u2", "p3", "p4", "p5", "p6", "p7", "p8", "p9">>
                         ELSE <<>>]
    /\ admins = [c \in Convs |-> IF c = "A" THEN {"u1"} ELSE {}]
    /\ conversations = [c \in {"A"} |-> "u1"]
    /\ lastRead = [c \in Convs |-> [u \in Users |-> NoMsg]]
    /\ messages = <<[conv |-> "A", author |-> "u2", ts |-> 1, deleted |-> FALSE]>>
    /\ clock = 1
    /\ userStatus = [u \in Users |-> "offline"]
    /\ connState = [k \in Sockets |-> "new"]
    /\ rooms = [k \in Sockets |-> {}]
    /\ currentConversation = [k \in Sockets |-> NoConv]
    /\ discConv = [k \in Sockets |-> NoConv]
    /\ tasks = <<>>
    /\ nhttp = 0
    /\ log = {}
    /\ requests = <<>>
    /\ terminalSessions = [s \in TermSockets |-> NoPty]
    /\ ptys = <<>>
    /\ termConn = [s \in TermSockets |-> "new"]
    /\ messageList = [k \in Sockets |-> <<>>]
    /\ conversationList = [k \in Sockets |-> [c \in Convs |-> NoMsg]]
    /\ processed = {}
NextParticipants ==
    \/ \E c \in Convs, u \in Users, ids \in {{}, {"u2"}, {"u9"}} : createConversation(c, u, ids)
    \/ \E r \in 1..MaxApiReq : createParticipants(r)
    \/ \E c \in Convs, u \in Users, n \in {"p10", "p11", "u9"} : addParticipant(c, u, n)
    \/ \E r \in 1..MaxApiReq : addParticipantToConversation(r)
    \/ \E c \in Convs, a \in Users, u \in Users : removeParticipant(c, a, u)
SpecParticipants == InitParticipants /\ [][NextParticipants]_vars

\* ---- clients that send requests as soon as they see `connect`
NextSetup ==
    \/ \E k \in GateConns : Connect(k) \/ ConnectDone(k)
    \/ \E k \in GateConns, ev \in ClientEvents : EventBeforeListeners(k, ev, "A")
    \/ /\ Len(tasks) < MaxGateReq
       /\ \E k \in GateConns : JoinConversation(k, "A")
    \/ JoinSteps
SpecSetup == Init /\ [][NextSetup]_vars

\* ---- terminal sockets: sessions started, restarted, exiting, disconnected
NextTerminal ==
    \/ \E s \in TermSockets : TerminalConnect(s)
    \/ \E s \in TermSockets : TerminalInit(s)
    \/ \E p \in 1..MaxPtys : PtyExit(p)
    \/ \E s \in TermSockets : TerminalDisconnect(s)
SpecTerminal == Init /\ [][NextTerminal]_vars

\* ---- handshakes of every kind, with joins and sends going on
HandshakeSockets == GateConns \cup Strangers
NextHandshake ==
    \/ \E k \in HandshakeSockets : Connect(k) \/ ConnectDone(k) \/ Refuse(k)
    \/ \E k \in HandshakeSockets : Disconnect(k) \/ DisconnectDone(k)
    \/ /\ Len(tasks) < MaxGateReq
       /\ \E k \in HandshakeSockets, c \in Convs : JoinConversation(k, c) \/ SendMessage(k, c)
    \/ JoinSteps
    \/ SendSteps
SpecHandshake == Init /\ [][NextHandshake]_vars

Next ==
    \/ \E k \in Sockets : Refuse(k)
    \/ NextPresence
    \/ \E k \in Conns, c \in Convs : JoinConversation(k, c)
    \/ \E k \in Conns, c \in Convs : SendMessage(k, c)
    \/ \E k \in Conns, c \in Convs : Typing(k, c)
    \/ \E k \in Conns, c \in Convs, m \in 1..MaxMsgs : MessageRead(k, c, m)
    \/ \E k \in Conns, c \in Convs : LeaveConversation(k, c)
    \/ JoinSteps
    \/ SendSteps
    \/ \E t \in DOMAIN tasks : TypingValidate(t)
    \/ ReadSteps
    \/ \E t \in DOMAIN tasks : LeaveValidate(t)
    \/ \E c \in Convs, a \in Users, u \in Users : removeParticipant(c, a, u)
    \/ \E m \in 1..MaxMsgs, a \in Users : deleteMessage(m, a)
    \/ \E t \in DOMAIN tasks : StoreFails(t)
    \/ \E k \in Conns, ev \in ClientEvents, c \in Convs : EventBeforeListeners(k, ev, c)
    \/ \E k \in Conns : ClientReceive(k)
    \/ NextParticipants
    \/ NextTerminal

Spec == Init /\ [][Next]_vars

\* ======================================================================
\* Claims
\* ======================================================================
MetaUpdated == "conversation_meta_updated"
\* the effects of the step being taken
NewEffects == log' \ log
\* effects caused by a send_message handler
FromSend(e) == e.task # 0 /\ tasks[e.task].op = "send"
Sender(e) == Credential[tasks[e.task].conn]

\* C1 - membership gating: a request whose user has no participant row for
\* the conversation when it is validated writes nothing to the Store, emits
\* nothing but the error to its own socket, changes no room and no tag, and
\* its handler does nothing afterwards.
MembershipGating ==
    [][\A t \in DOMAIN tasks' :
          /\ (tasks'[t].member = "no" /\ (t \notin DOMAIN tasks \/ tasks[t].member # "no"))
                => /\ storeVars' = storeVars
                   /\ rooms' = rooms
                   /\ currentConversation' = currentConversation
                   /\ \A e \in NewEffects :
                         e.type = "error" /\ e.task = t /\ e.to \subseteq {tasks'[t].conn}
          /\ (t \in DOMAIN tasks /\ tasks[t].member = "no")
                => /\ tasks'[t] = tasks[t]
                   /\ \A e \in NewEffects : e.task # t]_vars

\* C1 witness: a leave_conversation of the current conversation was refused
\* (the user was removed after joining), and so was a join
GatingWitness ==
    /\ \E t \in DOMAIN tasks : tasks[t].op = "leave" /\ tasks[t].member = "no"
    /\ \E t \in DOMAIN tasks : tasks[t].op = "join" /\ tasks[t].member = "yes"

\* the conversations whose broadcast group holds connection k
GroupsOf(k) == {c \in Convs : ConvRoom(c) \in rooms[k]}
\* every handler of k has ended, and each started after the one before ended
HandledInTurn(k) ==
    \A t \in DOMAIN tasks : tasks[t].conn = k => tasks[t].pc \in Finished /\ tasks[t].alone

\* C2 - single active room: after join_conversation requests handled one
\* after the other, a connection is in at most one conversation group.
SingleActiveRoom ==
    \A k \in Conns : HandledInTurn(k) => Cardinality(GroupsOf(k)) <= 1

\* C3 - ordering within a conversation: the new_message events of two
\* send_message requests of one connection on one conversation reach a
\* connection in the order of their Store timestamps.
BroadcastOrderIsTimestampOrder ==
    \A e1, e2 \in log :
        (/\ e1.type = "new_message" /\ e2.type = "new_message"
         /\ e1.task < e2.task
         /\ tasks[e1.task].conn = tasks[e2.task].conn
         /\ e1.conv = e2.conv
         /\ e1.to \cap e2.to # {})
        => (e1.at < e2.at <=> messages[e1.msg].ts < messages[e2.msg].ts)

\* C4 - multi-device presence: the hub never writes offline for a user who
\* still has a connected, acknowledged socket.
NoOfflineWhileConnected ==
    [][\A u \in Users :
          (userStatus'[u] = "offline" /\ userStatus[u] # "offline")
          => ~\E k \in Conns : Credential[k] = u /\ connState'[k] = "ready"]_vars

\* C5 - own unread is zero after sending: the conversation_meta_updated a
\* send_message pushes to the sender's own user group carries unreadCount 0.
OwnUnreadIsZero ==
    \A e \in log :
        (e.type = MetaUpdated /\ FromSend(e) /\ e.user = Sender(e)) => e.unread = 0

\* C5 witness: the sender was pushed 0 while the Store counts unread messages
\* for them
OwnUnreadWitness ==
    \E e \in log :
        /\ e.type = MetaUpdated /\ FromSend(e) /\ e.user = Sender(e)
        /\ e.to # {}
        /\ tasks[e.task].pc = "done"
        /\ isUserInConversation(e.conv, e.user)
        /\ UnreadFrom(e.conv, e.user, 1) > 0

\* the unread count as the data model defines it
DerivedUnread(c, p) ==
    Cardinality({i \in DOMAIN messages :
                    /\ messages[i].conv = c
                    /\ ~messages[i].deleted
                    /\ messages[i].author # p
                    /\ (lastRead[c][p] # NoMsg => messages[i].ts > messages[lastRead[c][p]].ts)})

\* C6 - unread count pushed to recipients: the count a send_message pushes
\* to a participant other than the sender is the derived unread count of that
\* participant at the time the Store is asked.
RecipientUnreadIsDerived ==
    [][\A e \in NewEffects :
          (/\ e.type = MetaUpdated /\ FromSend(e) /\ e.user # Sender(e)
           /\ e.user \in SeqToSet(participants[e.conv]))
          => e.unread = DerivedUnread(e.conv, e.user)]_vars

\* C6 witness: a recipient whose pointer is null was pushed 1, and one whose
\* pointer is set was pushed a count
RecipientUnreadWitness ==
    /\ \E e \in log :
        /\ e.type = MetaUpdated /\ FromSend(e) /\ e.user # Sender(e)
        /\ e.unread = 1 /\ e.to # {}
        /\ lastRead[e.conv][e.user] = NoMsg
    /\ \E e \in log :
        /\ e.type = MetaUpdated /\ FromSend(e) /\ e.user # Sender(e)
        /\ lastRead[e.conv][e.user] # NoMsg

\* C7 - notification fan-out: when a send_message handler pushes the
\* metadata, every connected socket of every participant listed gets exactly
\* one conversation_meta_updated for the message; new_message goes to no
\* socket outside the conversation's group.
NotificationFanOut ==
    [][/\ \A t \in DOMAIN tasks :
            (tasks[t].op = "send" /\ tasks[t].pc = "unread" /\ tasks'[t].pc = "done")
            => \A k \in Conns :
                  (connState[k] \in {"setup", "ready"} /\ Credential[k] \in SeqToSet(tasks[t].parts))
                  => Cardinality({e \in NewEffects :
                                     /\ e.type = MetaUpdated /\ e.conv = tasks[t].conv
                                     /\ e.msg = tasks[t].mid /\ k \in e.to}) = 1
       /\ \A e \in NewEffects :
            e.type = "new_message" => \A k \in e.to : ConvRoom(e.conv) \in rooms[k]]_vars

\* C7 witness: a socket got conversation_meta_updated for a message it did
\* not get as new_message
FanOutWitness ==
    \E e \in log :
        /\ e.type = MetaUpdated /\ FromSend(e)
        /\ \E k \in e.to :
              /\ Credential[k] # Sender(e)
              /\ ~\E n \in log : n.type = "new_message" /\ n.msg = e.msg /\ k \in n.to

\* C8 - new_message audience: new_message goes to exactly the connected
\* sockets in the conversation's group when it is broadcast.
NewMessageReachesGroup ==
    [][\A e \in NewEffects :
          e.type = "new_message"
          => e.to = {k \in Conns : connState[k] \in {"setup", "ready"}
                                    /\ ConvRoom(e.conv) \in rooms[k]}]_vars

\* C8 witness: the sending socket and another socket of the sender got the
\* message, and a socket outside the group did not
NewMessageWitness ==
    \E e \in log :
        /\ e.type = "new_message"
        /\ e.from \in e.to
        /\ \E k \in e.to : k # e.from /\ Credential[k] = Credential[e.from]
        /\ \E k \in Conns : k \notin e.to /\ connState[k] = "ready"

Exclusive == {"user_typing", "user_joined_conversation", "user_left_conversation",
              "user_read_message"}

\* C9 - broadcast exclusivity: user_typing, user_joined_conversation,
\* user_left_conversation and user_read_message never reach the socket whose
\* request or disconnect caused them.
BroadcastExclusivity == \A e \in log : e.type \in Exclusive => e.from \notin e.to

\* C9 witness: a socket that is in the group it typed to, with somebody else
\* there to get the event
ExclusivityWitness ==
    \E e \in log :
        /\ e.type = "user_typing"
        /\ e.to # {}
        /\ ConvRoom(e.conv) \in rooms[e.from]

\* at most one handler is in flight
OneAtATime == Cardinality({t \in DOMAIN tasks : tasks[t].pc \notin Finished}) <= 1

\* C10 - the read pointer never regresses: a pointer that is set is replaced
\* only by a message that is not older (stated for requests handled one at a
\* time, where no reordering of handlers can be the cause).
ReadPointerNeverRegresses ==
    [][\A c \in Convs, u \in Users :
          (OneAtATime /\ lastRead[c][u] # NoMsg /\ lastRead'[c][u] # NoMsg)
          => messages'[lastRead'[c][u]].ts >= messages[lastRead[c][u]].ts]_vars

\* C15 - handshake gating: a socket whose handshake names no user id, or one
\* the Store does not resolve, is never connected: it is in no room, has no
\* tag, no handler ever runs for it, it causes no effect (no status write
\* among them) and no event is delivered to it.
HandshakeGating ==
    \A k \in Sockets :
        (Credential[k] = NoUser \/ Credential[k] \notin Users)
        => /\ connState[k] \in {"new", "refused"}
           /\ rooms[k] = {}
           /\ currentConversation[k] = NoConv
           /\ \A t \in DOMAIN tasks : tasks[t].conn # k
           /\ \A e \in log : e.from # k /\ k \notin e.to

\* C15 witness: both kinds of handshake were refused while the hub delivered
\* a message to a connection
HandshakeWitness ==
    /\ connState["k4"] = "refused"
    /\ connState["k5"] = "refused"
    /\ \E e \in log : e.type = "new_message" /\ e.to # {}

\* C16 - authentication side-effect ordering: every `authenticated` comes
\* after the socket's join of its user room and after the write of the
\* status online, in the order the connection handler produced them.
AckAfterJoinAndOnline ==
    \A e \in log :
        e.type = "authenticated"
        => /\ \E j \in log : /\ j.type = "room_join" /\ j.task = 0 /\ j.from = e.from
                              /\ j.room = UserRoom(e.user) /\ j.seq < e.seq
           /\ \E w \in log : /\ w.type = "store_status_online" /\ w.from = e.from
                              /\ w.seq < e.seq

\* C16 witness: the acknowledgment reached its socket, the user being online
AckWitness ==
    \E e \in log :
        /\ e.type = "authenticated"
        /\ e.to = {e.from}
        /\ userStatus[e.user] = "online"
        /\ UserRoom(e.user) \in rooms[e.from]

\* a message_read handler that ended having written the pointer
ReadDone(t) == tasks[t].op = "read" /\ tasks[t].pc = "done" /\ tasks[t].mid # NoMsg
\* an earlier message_read of the same connection for the same conversation
\* and message, which ended having written the pointer
ReadBefore(t) ==
    {t1 \in 1..(t - 1) : /\ ReadDone(t1)
                         /\ tasks[t1].conn = tasks[t].conn
                         /\ tasks[t1].conv = tasks[t].conv
                         /\ tasks[t1].arg = tasks[t].arg}

ReadsAppliedInIssueOrder ==
    \A t1, t2 \in DOMAIN tasks :
        (/\ t1 < t2
         /\ ReadDone(t1) /\ ReadDone(t2)
         /\ tasks[t1].conn = tasks[t2].conn
         /\ tasks[t1].conv = tasks[t2].conv
         /\ RowExists(tasks[t2].conv, UserOf(t2))
         /\ \A t3 \in DOMAIN tasks \ {t1, t2} :
               ~(tasks[t3].op = "read" /\ tasks[t3].conv = tasks[t2].conv
                 /\ UserOf(t3) = UserOf(t2)))
        => lastRead[tasks[t2].conv][UserOf(t2)] = tasks[t2].arg

\* C13 - unread state after marking read: the unreadCount a message_read
\* pushes to the caller's user group is the unread count derived from the
\* pointer just written.
ReadPushMatchesDerived ==
    [][\A e \in NewEffects :
          (e.type = MetaUpdated /\ e.task # 0 /\ tasks[e.task].op = "read")
          => e.unread = DerivedUnread(e.conv, e.user)']_vars

\* C14 - a read receipt carries no content to others: of the events of a
\* message_read, user_read_message holds the three ids only and does not go
\* to the caller's socket; message_read_updated goes to the caller's socket
\* only; and an event holding a message goes to no socket of another user.
ReadReceiptHidesContent ==
    \A e \in log :
        (e.task # 0 /\ tasks[e.task].op = "read")
        => /\ e.type = "user_read_message"
                => /\ PayloadFields(e.type) = {"conversationId", "messageId", "userId"}
                   /\ MessageFields(e.type) = {}
                   /\ e.from \notin e.to
           /\ e.type = "message_read_updated" => e.to \subseteq {e.from}
           /\ MessageFields(e.type) # {}
                => \A k \in e.to : Credential[k] = Credential[e.from]

\* C14 witness: a connection of another user got user_read_message for a
\* read whose message_read_updated reached the caller
ReadReceiptWitness ==
    \E e, r \in log :
        /\ e.type = "user_read_message" /\ r.type = "message_read_updated"
        /\ e.task = r.task /\ e.task # 0
        /\ r.to = {r.from}
        /\ \E k \in e.to : Credential[k] # Credential[e.from]

\* C17 - a membership violation is reported to the caller: every
\* join_conversation, send_message, message_read or leave_conversation that
\* fails the membership check ends with an `error` delivered to the
\* requesting connection.
ViolationReported ==
    \A t \in DOMAIN tasks :
        (/\ tasks[t].member = "no"
         /\ tasks[t].op \in {"join", "send", "read", "leave"}
         /\ tasks[t].pc \in Finished
         /\ Connected(tasks[t].conn))
        => \E e \in log : e.type = "error" /\ e.task = t /\ e.to = {tasks[t].conn}

\* C20 - every failure is caught inside the hub: no handler ends with its
\* promise rejected.
NoUnhandledRejection == \A t \in DOMAIN tasks : tasks[t].pc # "rejected"

Partial == {"user_joined_conversation", "new_message", "conversation_meta_updated",
            "room_join", "room_leave", "tag_set"}

\* C19 - no partial effects on failure: a join_conversation or send_message
\* that ended with `error` after a Store call failed has broadcast nothing
\* and has changed neither the rooms nor the tag of its socket.
NoPartialEffects ==
    \A t \in DOMAIN tasks :
        (tasks[t].pc = "failed" /\ tasks[t].op \in {"join", "send"} /\ tasks[t].member # "no")
        => \A e \in log : e.task = t => e.type \notin Partial

\* C21 - typing is best-effort and silent: a step of a typing handler writes
\* nothing to the Store and emits nothing but user_typing; when the handler
\* ends in its catch block, the step emits nothing at all.
TypingIsSilent ==
    [][\A t \in DOMAIN tasks' :
          (tasks'[t].op = "typing" /\ (t \notin DOMAIN tasks \/ tasks'[t] # tasks[t]))
          => /\ storeVars' = storeVars
             /\ \A e \in NewEffects : e.type = "user_typing"
             /\ tasks'[t].pc = "failed" => NewEffects = {}]_vars

\* C21 witness: a typing refused by the membership check and one whose Store
\* call failed, the sender connected and somebody in the room
TypingSilentWitness ==
    \E t1, t2 \in DOMAIN tasks :
        /\ tasks[t1].op = "typing" /\ tasks[t1].pc = "failed" /\ tasks[t1].member = "no"
        /\ tasks[t2].op = "typing" /\ tasks[t2].pc = "failed" /\ tasks[t2].member = "pending"
        /\ connState[tasks[t1].conn] = "ready" /\ connState[tasks[t2].conn] = "ready"
        /\ IoTo(ConvRoom(tasks[t2].conv)) # {}

\* C22 - implicit leave on switching rooms: a join_conversation that took its
\* socket out of a room for another conversation has broadcast
\* user_left_conversation for that conversation before joining the new
\* room, and the socket is out of the old conversation's group.
ImplicitLeaveOnSwitch ==
    \A e \in log :
        (/\ e.type = "room_leave" /\ e.task # 0
         /\ tasks[e.task].op = "join"
         /\ e.conv # tasks[e.task].conv)
        => /\ e.room = ConvRoom(e.conv)
           /\ \E l, j \in log :
                 /\ l.type = "user_left_conversation" /\ l.task = e.task /\ l.conv = e.conv
                 /\ j.type = "room_join" /\ j.task = e.task
                 /\ l.seq < j.seq

\* C24 - leave of a non-active conversation is a no-op: the request changes
\* nothing in the Store, no room, no tag, emits nothing, and its handler has
\* returned and does nothing afterwards.
LeaveOfInactiveIsNoop ==
    [][/\ \A t \in DOMAIN tasks' \ DOMAIN tasks :
             (tasks'[t].op = "leave" /\ currentConversation[tasks'[t].conn] # tasks'[t].conv)
             => /\ tasks'[t].pc = "noop"
                /\ storeVars' = storeVars
                /\ hubVars' = hubVars
                /\ log' = log
       /\ \A t \in DOMAIN tasks :
             tasks[t].pc = "noop"
             => tasks'[t] = tasks[t] /\ \A e \in NewEffects : e.task # t]_vars

\* C24 witness: a leave of A and a leave with the tag unset, handled as
\* no-ops, the first while the socket is in B with somebody else in A
LeaveNoopWitness ==
    \E t1, t2 \in DOMAIN tasks :
        /\ t1 # t2
        /\ tasks[t1].op = "leave" /\ tasks[t1].pc = "noop" /\ tasks[t1].conv = "A"
        /\ currentConversation[tasks[t1].conn] = "B"
        /\ tasks[t2].op = "leave" /\ tasks[t2].pc = "noop"
        /\ \A e \in log : e.task # t1 /\ e.task # t2

\* C25 - departure is announced on disconnect: when a connection
\* disconnects it leaves every room, each conversation whose group it was in
\* is the one its disconnect handler will announce, and the handler sends
\* user_left_conversation for it to the sockets left in that group.
DepartureAnnounced ==
    [][\A k \in Conns :
          /\ (connState[k] = "ready" /\ connState'[k] = "closing")
                => /\ rooms'[k] = {}
                   /\ \A c \in Convs : ConvRoom(c) \in rooms[k] => discConv'[k] = c
          /\ (connState[k] = "closing" /\ connState'[k] = "closed" /\ discConv[k] # NoConv)
                => \E e \in NewEffects :
                      /\ e.type = "user_left_conversation"
                      /\ e.conv = discConv[k] /\ e.user = Credential[k]
                      /\ e.to = IoTo(ConvRoom(discConv[k])) \ {k}]_vars

\* every handler of k has ended
AllHandled(k) == \A t \in DOMAIN tasks : tasks[t].conn = k => tasks[t].pc \in Finished

\* C26 - cleanup survives in-flight operations: once a connection has
\* disconnected and all its handlers have ended, it is in no room, and the
\* user is offline when no other connection of the user was ever opened.
CleanupAfterDisconnect ==
    \A k \in Conns :
        (connState[k] = "closed" /\ AllHandled(k))
        => /\ rooms[k] = {}
           /\ (\A k2 \in Conns \ {k} : Credential[k2] = Credential[k] => connState[k2] = "new")
                => userStatus[Credential[k]] = "offline"

\* C27 - single room under concurrent joins: when the only two requests of a
\* connection are joins of two conversations, the second made while the
\* first was in flight, and both have ended, the connection is in at most
\* one conversation group.
SingleRoomConcurrentJoins ==
    \A t1, t2 \in DOMAIN tasks :
        (/\ t1 < t2
         /\ tasks[t1].op = "join" /\ tasks[t2].op = "join"
         /\ tasks[t1].conn = tasks[t2].conn
         /\ tasks[t1].conv # tasks[t2].conv
         /\ tasks[t1].pc = "done" /\ tasks[t2].pc = "done"
         /\ ~tasks[t2].alone
         /\ connState[tasks[t1].conn] = "ready"
         /\ \A t3 \in DOMAIN tasks \ {t1, t2} : tasks[t3].conn # tasks[t1].conn)
        => Cardinality(GroupsOf(tasks[t1].conn)) <= 1

\* C30 - the read pointer stays inside its conversation: a pointer that is
\* set references a message of the conversation of its participant row.
PointerInsideConversation ==
    \A c \in Convs, u \in Users :
        lastRead[c][u] # NoMsg => messages[lastRead[c][u]].conv = c

\* C23: a join_conversation request that succeeded has produced exactly one
\* conversation_history event, a request that has not succeeded has produced
\* none, and the event is delivered to the requesting connection and to no
\* other connection, other connections of the same user included.
HistoriesOf(t) == {e \in log : e.type = "conversation_history" /\ e.task = t}
HistoryUnicastOnce ==
    \A t \in DOMAIN tasks :
        tasks[t].op = "join" =>
            /\ Cardinality(HistoriesOf(t)) = (IF tasks[t].pc = "done" THEN 1 ELSE 0)
            /\ \A e \in HistoriesOf(t) :
                  /\ e.from = tasks[t].conn
                  /\ e.conv = tasks[t].conv
                  /\ e.to \subseteq {tasks[t].conn}
HistoryUnicastWitness ==
    \E t \in DOMAIN tasks :
        /\ tasks[t].op = "join" /\ tasks[t].conn = "k1" /\ tasks[t].pc = "done"
        /\ connState["k2"] = "ready"
        /\ \E e \in HistoriesOf(t) : e.to = {"k1"}

\* C28: a persisted message reaches a connection at most once during one stay
\* in a conversation: at most once as new_message, and never both inside the
\* conversation_history reply of a join and as a new_message event following
\* that same join.
JoinsOf(k) == {t \in DOMAIN tasks : tasks[t].op = "join" /\ tasks[t].conn = k}
AtMostOncePerSession ==
    /\ \A n1 \in log, n2 \in log :
          (/\ n1.type = "new_message" /\ n2.type = "new_message"
           /\ n1.msg = n2.msg /\ n1.to \cap n2.to # {}) => n1 = n2
    /\ \A h \in log, n \in log :
          (/\ h.type = "conversation_history" /\ n.type = "new_message"
           /\ JoinsOf(h.from) = {h.task}
           /\ h.conv = n.conv
           /\ h.from \in h.to /\ h.from \in n.to)
              => n.msg \notin SeqToSet(h.hist)

\* the messages of conversation c that are not soft-deleted
Visible(c) == {i \in 1..Len(messages) : messages[i].conv = c /\ ~messages[i].deleted}

\* C29, as stated: a conversation_history reply never includes a message that
\* is soft-deleted when the reply is sent.
RepliesHideDeleted ==
    [][\A e \in NewEffects :
          e.type = "conversation_history"
             => \A i \in SeqToSet(e.hist) : ~messages[i].deleted]_vars

\* C29, amended: soft-deleted messages are kept, and every Store computation
\* leaves out the messages that are deleted when it runs: the history page a
\* join fetches, the unread counts a send pushes, the message count and the
\* last message of a conversation. Deleting changes the flag of a row and
\* nothing else; no row is ever removed.
DeletedHiddenWhenComputed ==
    /\ [](\A c \in Convs :
            /\ SeqToSet(getMessagesForConversation(c)) \subseteq Visible(c)
            /\ getMessageCount(c) = Cardinality(Visible(c))
            /\ getLastMessage(c) \in Visible(c) \cup {NoMsg}
            /\ \A u \in Users :
                  getUnreadCountForConversation(c, {u})[u]
                     <= Cardinality({i \in Visible(c) : messages[i].author # u}))
    /\ [][/\ Len(messages') >= Len(messages)
          /\ \A i \in 1..Len(messages) :
                messages'[i] = [messages[i] EXCEPT !.deleted = messages'[i].deleted]
          /\ \A t \in DOMAIN tasks :
                (tasks[t].pc = "history" /\ tasks'[t].pc = "lastRead")
                   => SeqToSet(tasks'[t].hist) \subseteq Visible(tasks[t].conv)
          /\ \A e \in NewEffects :
                (e.type = MetaUpdated /\ FromSend(e))
                   => e.unread <= Cardinality({i \in Visible(e.conv) :
                                                  messages[i].author # e.user})]_vars

\* C29 witness: a message of the conversation was soft-deleted, its row is
\* still there, and a join that fetched its page afterwards got a reply with
\* a later message and without the deleted one
DeletedHiddenWitness ==
    \E t \in DOMAIN tasks, m \in 1..Len(messages) :
        /\ tasks[t].op = "join" /\ tasks[t].pc = "done"
        /\ messages[m].deleted /\ messages[m].conv = tasks[t].conv
        /\ \E e \in HistoriesOf(t) :
              /\ m \notin SeqToSet(e.hist)
              /\ \E i \in SeqToSet(e.hist) : i > m

\* C32 - the tag agrees with the room membership: when a connection that
\* joined A has sent leave_conversation(A) and then join_conversation(B), and
\* no handler of it is in flight any more, its tag is B and the only
\* conversation group it is in is that of B, however the two handlers
\* interleaved.
TagAgreesAfterLeaveThenJoin ==
    \A t1, t2, t3 \in DOMAIN tasks :
        (/\ t1 < t2 /\ t2 < t3
         /\ tasks[t1].conn = tasks[t2].conn /\ tasks[t2].conn = tasks[t3].conn
         /\ tasks[t1].op = "join" /\ tasks[t1].pc = "done"
         /\ tasks[t2].op = "leave" /\ tasks[t2].conv = tasks[t1].conv
         /\ tasks[t2].alone /\ tasks[t2].pc = "done"
         /\ tasks[t3].op = "join" /\ tasks[t3].conv # tasks[t1].conv
         /\ tasks[t3].pc = "done"
         /\ connState[tasks[t1].conn] = "ready")
        => /\ currentConversation[tasks[t1].conn] = tasks[t3].conv
           /\ GroupsOf(tasks[t1].conn) = {tasks[t3].conv}

\* C33 - a removed participant can still stop listening: when the handler of
\* a leave_conversation for the connection's active conversation ends, the
\* connection is out of that conversation's group, also when the user's
\* participant row was removed in the meantime.
RemovedCanLeave ==
    [][\A t \in DOMAIN tasks :
          (/\ tasks[t].op = "leave" /\ tasks[t].pc = "validate"
           /\ tasks'[t].pc \in Finished)
          => ConvRoom(tasks[t].conv) \notin rooms'[tasks[t].conn]]_vars

\* C37 - no orphaned terminal process: every pty that is still running is
\* the one registered under its socket's id, and once a socket has
\* disconnected no pty spawned for it is running and the registry has no
\* entry for it.
NoOrphanedPty ==
    /\ \A p \in DOMAIN ptys :
          ptys[p].state = "running" => terminalSessions[ptys[p].socket] = p
    /\ \A s \in TermSockets :
          termConn[s] = "gone"
             => /\ terminalSessions[s] = NoPty
                /\ \A p \in DOMAIN ptys : ptys[p].socket = s => ptys[p].state # "running"

\* C34 - no request is dropped during connection setup: every event a client
\* sends on an accepted connection reaches its handler, also when it arrives
\* before the online-status write has completed and `authenticated` has been
\* emitted.
NoRequestDropped == \A k \in Conns : Unheard(k) = {}

\* every request of the conversation controller has been answered
Answered == \A r \in DOMAIN requests : requests[r].pc # "insert"

\* C31 - participant invariants: once the createConversation, addParticipant
\* and removeParticipant requests made have been answered, every existing
\* conversation has at least one participant, the creator's row, while
\* present, has is_admin, and no other row has it.
ParticipantInvariants ==
    Answered =>
        \A c \in DOMAIN conversations :
            /\ Len(participants[c]) >= 1
            /\ RowExists(c, conversations[c]) => conversations[c] \in admins[c]
            /\ admins[c] \subseteq {conversations[c]}

\* C38 - participant cap: no conversation ever has more than MAX_PARTICIPANTS
\* participants, also when addParticipant requests interleave between
\* reading the participant list and inserting the row.
ParticipantCap ==
    \A c \in DOMAIN conversations : Len(participants[c]) <= MAX_PARTICIPANTS

\* the hub and the clients are at rest
AtRest == NothingPending /\ \A t \in DOMAIN tasks : tasks[t].pc \in Finished

\* C35 - the notification view converges: when send_message requests of
\* different connections into one conversation have all been handled, the
\* lastMessage a client holds for the conversation after the last
\* conversation_meta_updated it received is the message of the conversation
\* with the greatest timestamp.
LastMessageConverges ==
    (/\ AtRest
     /\ \A t1, t2 \in DOMAIN tasks :
           (t1 # t2 /\ tasks[t1].op = "send" /\ tasks[t2].op = "send")
              => tasks[t1].conn # tasks[t2].conn)
    => \A k \in Conns, c \in Convs :
          conversationList[k][c] # NoMsg
             => \A i \in 1..Len(messages) :
                   messages[i].conv = c
                      => messages[i].ts <= messages[conversationList[k][c]].ts

\* C36 - the client's message list loses nothing around a join: once the
\* conversation_history reply of a connection's join and the new_message
\* events have been processed, every message that was broadcast to the
\* connection as new_message is in the list its client displays, also when
\* the new_message arrived before the reply.
ListLosesNothing ==
    AtRest =>
        \A k \in Conns :
            (\E t \in JoinsOf(k) : tasks[t].pc = "done" /\ JoinsOf(k) = {t})
               => \A n \in log :
                     (n.type = "new_message" /\ k \in n.to)
                        => n.msg \in SeqToSet(messageList[k])
====
